---- MODULE Spec2Model ----
(***************************************************************************)
(* Model of send_applications.py: a batch mailer that reads recipient rows *)
(* from a CSV file, renders one message per row from a role template,      *)
(* attaches a resume and either previews the message or sends it over SMTP *)
(* with bounded retry, linear backoff and an inter-recipient throttle.     *)
(*                                                                         *)
(* Strings are sequences of atoms.  An atom is a one-character string, or  *)
(* a chunk of literal template text.  A CSV field is None (the column is   *)
(* absent from the row) or Some(s).                                        *)
(*                                                                         *)
(* The resume path is looked up by every build_message call; the model     *)
(* takes the file system as unchanged during one run, so resume_exists is  *)
(* chosen once in Init.                                                    *)
(***************************************************************************)
EXTENDS Integers, Sequences, FiniteSets, TLC

\* ---- Configuration (module level constants of the program) ----
DEFAULT_DELAY_SECONDS == 3
MAX_RETRIES == 3
RETRY_BACKOFF == 5

\* ---- Bounds of the model ----
MaxRows == 2

\* ---- Strings ----
None == <<>>
Some(s) == <<s>>

Whitespace == {" ", "\t"}

\* str.strip(): drop leading and trailing whitespace
RECURSIVE LStrip(_)
LStrip(s) ==
    IF s = <<>> THEN <<>>
    ELSE IF Head(s) \in Whitespace THEN LStrip(Tail(s)) ELSE s

RECURSIVE RStrip(_)
RStrip(s) ==
    IF s = <<>> THEN <<>>
    ELSE IF s[Len(s)] \in Whitespace THEN RStrip(SubSeq(s, 1, Len(s) - 1)) ELSE s

Strip(s) == RStrip(LStrip(s))

\* str.lower() on the characters the inputs use
LowerChar(c) ==
    CASE c = "F" -> "f" [] c = "R" -> "r" [] c = "O" -> "o" [] c = "N" -> "n"
      [] c = "T" -> "t" [] c = "E" -> "e" [] c = "D" -> "d" [] c = "B" -> "b"
      [] c = "A" -> "a" [] c = "C" -> "c" [] c = "K" -> "k" [] c = "U" -> "u"
      [] c = "I" -> "i" [] c = "X" -> "x"
      [] OTHER -> c

Lower(s) == [k \in 1..Len(s) |-> LowerChar(s[k])]

\* Python's `v or d` for a value that is None or a string: None and '' are falsy
OrElse(v, d) == IF v = None THEN d ELSE IF v[1] = <<>> THEN d ELSE v[1]

\* ---- Template texts ----
STR_frontend == <<"f","r","o","n","t","e","n","d">>
STR_front_end == <<"f","r","o","n","t","-","e","n","d">>
STR_ui == <<"u","i">>
STR_backend == <<"b","a","c","k","e","n","d">>
STR_back_end == <<"b","a","c","k","-","e","n","d">>
STR_Company == <<"C","o","m","p","a","n","y">>
STR_HiringTeam == <<"H","i","r","i","n","g"," ","T","e","a","m">>

RoleKeys == {"frontend", "backend", "software"}

TEMPLATES ==
    [frontend |-> [subject_tail |-> " - Frontend Engineer Application - Ayush Chauhan",
                   body_mid |-> "frontend body",
                   body_tail |-> "closing"],
     backend  |-> [subject_tail |-> " - Backend Engineer Application - Ayush Chauhan",
                   body_mid |-> "backend body",
                   body_tail |-> "closing"],
     software |-> [subject_tail |-> " - Software Engineer Application - Ayush Chauhan",
                   body_mid |-> "software body",
                   body_tail |-> "closing"]]

\* template['subject'].format(company=company)
FormatSubject(template, company) == company \o <<template.subject_tail>>

\* template['body'].format(contact_name=contact_name, company=company)
FormatBody(template, contact_name, company) ==
    <<"Hi ">> \o contact_name \o <<template.body_mid>> \o company \o <<template.body_tail>>

\* ---- Per-row resolution (main, the head of the loop body) ----
ToEmail(r) == Strip(OrElse(r.email, <<>>))
Company(r) == Strip(OrElse(r.company, STR_Company))
ContactName(r) ==
    LET c == Strip(OrElse(r.contact_name, <<>>))
    IN  IF c = <<>> THEN STR_HiringTeam ELSE c
\* The role key with lower() forgotten.
Preferred_NoLower(r) == Strip(OrElse(r.role_preference, <<>>))
Preferred(r) == Lower(Strip(OrElse(r.role_preference, <<>>)))
SubjectOverride(r) == Strip(OrElse(r.subject, <<>>))

Role(r) ==
    IF Preferred(r) \in {STR_frontend, STR_front_end, STR_ui} THEN "frontend"
    ELSE IF Preferred(r) \in {STR_backend, STR_back_end} THEN "backend"
    ELSE "software"

\* The subject with the override column ignored.
Subject_NoOverride(r) == FormatSubject(TEMPLATES[Role(r)], Company(r))

Subject(r) ==
    IF SubjectOverride(r) # <<>> THEN SubjectOverride(r)
    ELSE FormatSubject(TEMPLATES[Role(r)], Company(r))

Body(r) == FormatBody(TEMPLATES[Role(r)], ContactName(r), Company(r))

\* The emptiness test on the raw field, without strip().
MissingEmail_NoStrip(r) == OrElse(r.email, <<>>) = <<>>

\* `if not to_email`
MissingEmail(r) == ToEmail(r) = <<>>

\* ---- Inputs ----
\* Rows the CSV file may hold.
SampleRows ==
    { [email |-> Some(<<"a">>), company |-> Some(<<"A">>), contact_name |-> None,
       role_preference |-> Some(<<"F","r","o","n","t","e","n","d">>), subject |-> None],
      [email |-> Some(<<>>), company |-> Some(<<"B">>), contact_name |-> Some(<<"b">>),
       role_preference |-> Some(STR_backend), subject |-> Some(<<>>)],
      [email |-> Some(<<" ", "c">>), company |-> Some(<<" ">>), contact_name |-> Some(<<" ">>),
       role_preference |-> Some(<<"x">>), subject |-> Some(<<"H","i">>)],
      [email |-> None, company |-> None, contact_name |-> None,
       role_preference |-> None, subject |-> None],
      [email |-> Some(<<" ">>), company |-> Some(<<>>), contact_name |-> Some(<<>>),
       role_preference |-> Some(<<" ","U","I"," ">>), subject |-> Some(<<" ">>)] }

RowLists == UNION { [1..n -> SampleRows] : n \in 0..MaxRows }

\* --delay values
Delays == {0, DEFAULT_DELAY_SECONDS}

\* What one pass through the try block of send_smtp may do:
\*   ok          every call returned
\*   send_error  an exception at SMTP(), starttls(), login() or send_message()
\*   quit_error  send_message() returned, then quit() raised
MailerResults == {"ok", "send_error", "quit_error"}

VARIABLES
    dry_run,        \* args.dry_run
    send,           \* args.send
    smtp_user,      \* args.smtp_user is truthy
    smtp_pass,      \* args.smtp_pass is truthy
    from_email,     \* args.from_email is truthy
    delay,          \* args.delay
    resume_exists,  \* Path(args.resume).exists()
    csv,            \* the rows of the CSV file
    rows,           \* main's rows, empty before read_csv
    i,              \* the loop index of main (1-based)
    attempt,        \* the loop variable of send_smtp
    msg,            \* Some(the message and render context of row i), None outside
    pc,             \* the position of main
    log,            \* what the run has done so far, in order
    exit_status     \* the exit status of the process, NotExited while it runs

vars == <<dry_run, send, smtp_user, smtp_pass, from_email, delay, resume_exists,
          csv, rows, i, attempt, msg, pc, log, exit_status>>

args == <<dry_run, send, smtp_user, smtp_pass, from_email, delay, resume_exists, csv>>

\* The value of exit_status while the process runs
NotExited == -1

\* One entry of the run's history: what happened, for which row, with which
\* number (the attempt number or the seconds slept) and which Mailer result.
Event(ev, row, n, r) == [ev |-> ev, i |-> row, n |-> n, r |-> r]

Init ==
    /\ dry_run \in BOOLEAN
    /\ send \in BOOLEAN
    /\ smtp_user \in BOOLEAN
    /\ smtp_pass \in BOOLEAN
    /\ from_email \in BOOLEAN
    /\ delay \in Delays
    /\ resume_exists \in BOOLEAN
    /\ csv \in RowLists
    /\ rows = <<>>
    /\ i = 0
    /\ attempt = 0
    /\ msg = None
    /\ pc = "check_credentials"
    /\ log = <<>>
    /\ exit_status = NotExited

\* ---- Conditions of main and send_smtp ----
\* The credential test with `or` for `and`: one setting present is enough.
CredentialsMissing_AnyPresent == send /\ ~(smtp_user \/ smtp_pass \/ from_email)

\* `if args.send: if not (args.smtp_user and args.smtp_pass and args.from_email)`
CredentialsMissing == send /\ ~(smtp_user /\ smtp_pass /\ from_email)

\* The preview test with the dry-run flag forgotten.
IsPreview_SendWins == ~send

\* `if args.dry_run or not args.send`
IsPreview == dry_run \/ ~send

\* `if resume_path.exists()` in build_message
ResumeFound == resume_exists

\* The retry test off by one.
RetryAgain_OffByOne(a) == a <= MAX_RETRIES

\* `if attempt < MAX_RETRIES` in the except branch of send_smtp
RetryAgain(a) == a < MAX_RETRIES

\* The backoff with the attempt number forgotten.
BackoffSeconds_Constant(a) == RETRY_BACKOFF

\* `time.sleep(RETRY_BACKOFF * attempt)`
BackoffSeconds(a) == RETRY_BACKOFF * a

\* `time.sleep(args.delay)`
ThrottleSeconds == delay

\* ---- main ----
\* The credential check that precedes read_csv.
CheckCredentials ==
    /\ pc = "check_credentials"
    /\ IF CredentialsMissing
       THEN /\ log' = Append(log, Event("missing_credentials", 0, 0, ""))
            /\ pc' = "done"
       ELSE /\ pc' = "read_csv"
            /\ UNCHANGED log
    /\ UNCHANGED <<args, exit_status, rows, i, attempt, msg>>

\* rows = read_csv(args.csv); `if not rows: ... return`
ReadCsv ==
    /\ pc = "read_csv"
    /\ rows' = csv
    /\ IF csv = <<>>
       THEN /\ log' = log \o <<Event("read_csv", 0, 0, ""), Event("no_rows", 0, 0, "")>>
            /\ pc' = "done"
            /\ UNCHANGED i
       ELSE /\ log' = Append(log, Event("read_csv", 0, 0, ""))
            /\ pc' = "loop"
            /\ i' = 1
    /\ UNCHANGED <<args, exit_status, attempt, msg>>

\* The skip without its warning: the row leaves no trace in the run log.
SkipMissingEmail_Silent ==
    /\ pc = "loop"
    /\ i <= Len(rows)
    /\ MissingEmail(rows[i])
    /\ i' = i + 1
    /\ UNCHANGED <<args, exit_status, rows, attempt, msg, pc, log>>

\* Loop body for a row without an email: warn and `continue`.
SkipMissingEmail ==
    /\ pc = "loop"
    /\ i <= Len(rows)
    /\ MissingEmail(rows[i])
    /\ log' = Append(log, Event("skipped_missing_email", i, 0, ""))
    /\ i' = i + 1
    /\ UNCHANGED <<args, exit_status, rows, attempt, msg, pc>>

\* The loop body with `continue` for `return` in the FileNotFoundError handler.
BuildMessage_ContinueOnError ==
    /\ pc = "loop"
    /\ i <= Len(rows)
    /\ ~MissingEmail(rows[i])
    /\ IF ResumeFound
       THEN /\ msg' = Some([to |-> ToEmail(rows[i]), subject |-> Subject(rows[i]),
                            body |-> Body(rows[i]), role |-> Role(rows[i]),
                            company |-> Company(rows[i]),
                            contact_name |-> ContactName(rows[i])])
            /\ log' = Append(log, Event("built", i, 0, ""))
            /\ pc' = "route"
            /\ UNCHANGED i
       ELSE /\ log' = Append(log, Event("skipped_build_error", i, 0, ""))
            /\ i' = i + 1
            /\ UNCHANGED <<msg, pc>>
    /\ UNCHANGED <<args, exit_status, rows, attempt>>

\* Loop body for a row with an email: pick the template, render subject and
\* body, then build_message, which reads the resume or raises FileNotFoundError;
\* main catches that, prints it and returns.
BuildMessage ==
    /\ pc = "loop"
    /\ i <= Len(rows)
    /\ ~MissingEmail(rows[i])
    /\ IF ResumeFound
       THEN /\ msg' = Some([to |-> ToEmail(rows[i]), subject |-> Subject(rows[i]),
                            body |-> Body(rows[i]), role |-> Role(rows[i]),
                            company |-> Company(rows[i]),
                            contact_name |-> ContactName(rows[i])])
            /\ log' = Append(log, Event("built", i, 0, ""))
            /\ pc' = "route"
       ELSE /\ log' = Append(log, Event("skipped_build_error", i, 0, ""))
            /\ pc' = "done"
            /\ UNCHANGED msg
    /\ UNCHANGED <<args, exit_status, rows, i, attempt>>

\* The preview branch: print the message, log it, go to the next row.
Preview ==
    /\ pc = "route"
    /\ IsPreview
    /\ log' = Append(log, Event("previewed", i, 0, ""))
    /\ i' = i + 1
    /\ msg' = None
    /\ pc' = "loop"
    /\ UNCHANGED <<args, exit_status, rows, attempt>>

\* The send branch: call send_smtp, whose loop starts at attempt 1.
CallSendSmtp ==
    /\ pc = "route"
    /\ ~IsPreview
    /\ attempt' = 1
    /\ pc' = "send_smtp"
    /\ UNCHANGED <<args, exit_status, rows, i, msg, log>>

\* send_smtp with an except clause that does not cover what quit() raises:
\* the exception leaves send_smtp and main, and the run ends there.
SendAttempt_QuitErrorEscapes(res) ==
    /\ pc = "send_smtp"
    /\ IF res = "ok"
       THEN /\ log' = log \o <<Event("attempt", i, attempt, res), Event("sent", i, 0, "")>>
            /\ pc' = "throttle"
       ELSE IF res = "quit_error"
       THEN /\ log' = Append(log, Event("attempt", i, attempt, res))
            /\ pc' = "done"
       ELSE IF attempt < MAX_RETRIES
       THEN /\ log' = Append(log, Event("attempt", i, attempt, res))
            /\ pc' = "backoff"
       ELSE /\ log' = log \o <<Event("attempt", i, attempt, res),
                               Event("failed_after_retries", i, 0, "")>>
            /\ pc' = "throttle"
    /\ UNCHANGED <<args, exit_status, rows, i, attempt, msg>>

\* The try block with `return True` missing: a pass that raised nothing falls
\* out of the try statement and the loop goes on as after a failure.
Returned_Never(res) == FALSE

\* The try block reached `return True`: no call in it raised.
Returned(res) == res = "ok"

\* One pass through the try block of send_smtp, with the except branch up
\* to its decision: sleep and retry, or return False.  On return main logs
\* the verdict for the row.
SendAttempt(res) ==
    /\ pc = "send_smtp"
    /\ IF Returned(res)
       THEN /\ log' = log \o <<Event("attempt", i, attempt, res), Event("sent", i, 0, "")>>
            /\ pc' = "throttle"
       ELSE IF RetryAgain(attempt)
       THEN /\ log' = Append(log, Event("attempt", i, attempt, res))
            /\ pc' = "backoff"
       ELSE /\ log' = log \o <<Event("attempt", i, attempt, res),
                               Event("failed_after_retries", i, 0, "")>>
            /\ pc' = "throttle"
    /\ UNCHANGED <<args, exit_status, rows, i, attempt, msg>>

\* The sleep of the except branch, then the next iteration of the retry loop.
Backoff ==
    /\ pc = "backoff"
    /\ log' = Append(log, Event("backoff", i, BackoffSeconds(attempt), ""))
    /\ attempt' = attempt + 1
    /\ pc' = "send_smtp"
    /\ UNCHANGED <<args, exit_status, rows, i, msg>>

\* The throttle moved into the `if success` branch: no sleep after a failure.
Throttle_OnlyAfterSuccess ==
    /\ pc = "throttle"
    /\ log' = IF log[Len(log)].ev = "sent"
              THEN Append(log, Event("throttle", i, ThrottleSeconds, ""))
              ELSE log
    /\ i' = i + 1
    /\ attempt' = 0
    /\ msg' = None
    /\ pc' = "loop"
    /\ UNCHANGED <<args, exit_status, rows>>

\* time.sleep(args.delay) after send_smtp returned, then the next row.
Throttle ==
    /\ pc = "throttle"
    /\ log' = Append(log, Event("throttle", i, ThrottleSeconds, ""))
    /\ i' = i + 1
    /\ attempt' = 0
    /\ msg' = None
    /\ pc' = "loop"
    /\ UNCHANGED <<args, exit_status, rows>>

\* The loop is exhausted: logging.info("Run complete.")
RunComplete ==
    /\ pc = "loop"
    /\ i > Len(rows)
    /\ log' = Append(log, Event("run_complete", 0, 0, ""))
    /\ pc' = "done"
    /\ UNCHANGED <<args, exit_status, rows, i, attempt, msg>>

\* main() has returned (by any of its return statements or by falling off
\* its end) and the script ends: the interpreter exits with status 0.
ProcessExit ==
    /\ pc = "done"
    /\ exit_status = NotExited
    /\ exit_status' = 0
    /\ UNCHANGED <<args, rows, i, attempt, msg, pc, log>>

Next ==
    \/ CheckCredentials
    \/ ReadCsv
    \/ SkipMissingEmail
    \/ BuildMessage
    \/ Preview
    \/ CallSendSmtp
    \/ \E res \in MailerResults : SendAttempt(res)
    \/ Backoff
    \/ Throttle
    \/ RunComplete
    \/ ProcessExit

Spec == Init /\ [][Next]_vars

\* main is one thread that runs until it returns: a step that can be taken
\* is taken, every call of the Mailer and every sleep returning.
FairSpec == Spec /\ WF_vars(Next)

\* ---- One-row preview runs over a wide range of field values ----
RP_FRONT_END == <<"F","R","O","N","T","-","E","N","D">>
RP_front_end_padded == <<" ","f","r","o","n","t","-","e","n","d"," ">>
RP_UI_padded == <<" ","U","I","\t">>
RP_Backend == <<"B","a","c","k","e","n","d">>
RP_BACK_END_trailing == <<"B","A","C","K","-","E","N","D"," ">>
RP_front_space_end == <<"f","r","o","n","t"," ","e","n","d">>
RP_uix == <<"u","i","x">>

ResolveRolePrefs ==
    { None, Some(<<>>), Some(<<" ">>), Some(STR_frontend), Some(RP_FRONT_END),
      Some(RP_front_end_padded), Some(STR_ui), Some(RP_UI_padded), Some(RP_Backend),
      Some(STR_back_end), Some(RP_BACK_END_trailing), Some(RP_front_space_end),
      Some(RP_uix) }

ResolveSubjects ==
    { None, Some(<<>>), Some(<<" ">>), Some(<<"H","i">>), Some(<<" ","H","i"," ">>),
      Some(<<"{company}">>) }

ResolveCompanies == { None, Some(<<>>), Some(<<" ">>), Some(<<"A">>), Some(<<" ","A"," ">>) }

ResolveContacts == { None, Some(<<>>), Some(<<" ">>), Some(<<"b">>) }

ResolveEmails == { None, Some(<<" ">>), Some(<<"a">>) }

ResolveRows ==
    [email : ResolveEmails, company : ResolveCompanies, contact_name : ResolveContacts,
     role_preference : ResolveRolePrefs, subject : ResolveSubjects]

InitResolve ==
    /\ dry_run = TRUE
    /\ send = FALSE
    /\ smtp_user = FALSE
    /\ smtp_pass = FALSE
    /\ from_email = FALSE
    /\ delay = DEFAULT_DELAY_SECONDS
    /\ resume_exists = TRUE
    /\ csv \in { <<r>> : r \in ResolveRows }
    /\ rows = <<>>
    /\ i = 0
    /\ attempt = 0
    /\ msg = None
    /\ pc = "check_credentials"
    /\ log = <<>>
    /\ exit_status = NotExited

NextResolve ==
    \/ CheckCredentials
    \/ ReadCsv
    \/ SkipMissingEmail
    \/ BuildMessage
    \/ Preview
    \/ RunComplete
    \/ ProcessExit

SpecResolve == InitResolve /\ [][NextResolve]_vars

TypeOK ==
    /\ pc \in {"check_credentials", "read_csv", "loop", "route", "send_smtp",
               "backoff", "throttle", "done"}
    /\ i \in 0..(MaxRows + 1)
    /\ attempt \in 0..MAX_RETRIES
    /\ Len(log) <= 3 + MaxRows * (2 * MAX_RETRIES + 3)

\* ---- Reading the history ----
OutcomeEvents == {"previewed", "sent", "failed_after_retries",
                  "skipped_missing_email", "skipped_build_error"}

\* The positions of the log that hold event ev of row
At(ev, row) == {k \in 1..Len(log) : log[k].ev = ev /\ log[k].i = row}

\* The positions of the log that hold an outcome of row
OutcomesAt(row) == {k \in 1..Len(log) : log[k].ev \in OutcomeEvents /\ log[k].i = row}

Has(ev) == \E k \in 1..Len(log) : log[k].ev = ev

\* The loop is past row: it moved on to a later row, or the run ended in it.
Finished(row) == row < i \/ (row = i /\ pc = "done")

\* The email field is absent, empty or only whitespace.
BlankEmail(r) ==
    \/ r.email = None
    \/ \A k \in 1..Len(r.email[1]) : r.email[1][k] \in Whitespace

\* row has exactly one outcome, and it is ev
OnlyOutcome(row, ev) ==
    LET at == OutcomesAt(row) IN
    /\ Cardinality(at) = 1
    /\ \A k \in at : log[k].ev = ev

\* send_smtp was called for row and has returned
DeliverReturned(row) == At("attempt", row) # {} /\ (row < i \/ (row = i /\ pc = "throttle"))

\* C1: in a run with the dry-run flag set or the send flag not set (both set
\* included) the Mailer is never invoked: there is no send attempt, no backoff
\* wait and no throttle wait, and every row the loop has processed that has a
\* non-blank email, the resume existing, has the one outcome Previewed.
C1_PreviewNeverSends ==
    (dry_run \/ ~send) =>
        /\ \A k \in 1..Len(log) :
              log[k].ev \notin {"attempt", "backoff", "throttle", "sent", "failed_after_retries"}
        /\ pc \notin {"send_smtp", "backoff", "throttle"}
        /\ attempt = 0
        /\ \A row \in 1..Len(rows) :
              (Finished(row) /\ ~BlankEmail(rows[row]) /\ resume_exists)
                  => OnlyOutcome(row, "previewed")

\* A run with both flags set has previewed a row and ended.
C1_Witness ==
    /\ dry_run /\ send
    /\ pc = "done"
    /\ Has("run_complete")
    /\ \E row \in 1..Len(rows) : OnlyOutcome(row, "previewed")

\* C2: a row whose email is missing, empty or whitespace-only has the outcome
\* SkippedMissingEmail once the loop is past it and never anything else: no
\* build, no send attempt, no backoff and no throttle is recorded for it, and
\* right after the skip the loop stands at the next row.
C2_BlankEmailSkipped ==
    /\ \A row \in 1..Len(rows) :
          BlankEmail(rows[row]) =>
              /\ \A k \in 1..Len(log) :
                    log[k].i = row => log[k].ev = "skipped_missing_email"
              /\ Cardinality(At("skipped_missing_email", row)) <= 1
              /\ Finished(row) => OnlyOutcome(row, "skipped_missing_email")
              /\ i = row => (pc = "loop" /\ msg = None)
    /\ (log # <<>> /\ log[Len(log)].ev = "skipped_missing_email")
          => (pc = "loop" /\ i = log[Len(log)].i + 1)

\* A whitespace-only email was skipped and a later row was then processed.
C2_Witness ==
    \E row \in 1..Len(rows) :
        /\ rows[row].email = Some(<<" ">>)
        /\ OnlyOutcome(row, "skipped_missing_email")
        /\ row + 1 <= Len(rows)
        /\ OnlyOutcome(row + 1, "previewed")

\* Every attempt of row failed
AllFailed(row) == \A k \in At("attempt", row) : log[k].r # "ok"

\* C3: send_smtp never makes more than MAX_RETRIES attempts; when every
\* attempt of a returned call failed it made exactly MAX_RETRIES attempts,
\* numbered 1..MAX_RETRIES, and the verdict is FailedAfterRetries; and
\* FailedAfterRetries is reported only after MAX_RETRIES failed attempts.
C3_ExhaustionAfterMaxRetries ==
    \A row \in 1..Len(rows) :
        LET attempts == At("attempt", row)
            allFailed == \A k \in attempts : log[k].r # "ok"
        IN
        /\ Cardinality(attempts) <= MAX_RETRIES
        /\ (attempts # {} /\ (row < i \/ (row = i /\ pc = "throttle")) /\ allFailed) =>
              /\ Cardinality(attempts) = MAX_RETRIES
              /\ {log[k].n : k \in attempts} = 1..MAX_RETRIES
              /\ OnlyOutcome(row, "failed_after_retries")
        /\ At("failed_after_retries", row) # {} =>
              /\ allFailed
              /\ Cardinality(attempts) = MAX_RETRIES

\* A call whose three attempts all failed has returned.
C3_Witness ==
    \E row \in 1..Len(rows) :
        /\ DeliverReturned(row)
        /\ AllFailed(row)
        /\ Cardinality(At("attempt", row)) = 3
        /\ OnlyOutcome(row, "failed_after_retries")

\* C4: when an attempt succeeds it is attempt number k after k-1 failed
\* ones, the verdict Sent follows it at once, and no further attempt and no
\* backoff wait of that row comes after it.
C4_SuccessShortCircuits ==
    \A k \in 1..Len(log) :
        (log[k].ev = "attempt" /\ log[k].r = "ok") =>
            LET row == log[k].i
                attempts == At("attempt", log[k].i)
            IN
            /\ Cardinality(attempts) = log[k].n
            /\ \A j \in attempts : j # k => (j < k /\ log[j].r # "ok")
            /\ \A j \in At("backoff", row) : j < k
            /\ k < Len(log)
            /\ log[k + 1] = Event("sent", row, 0, "")
            /\ OnlyOutcome(row, "sent")

\* The first success came on attempt 2 in one call and on attempt 3 in another.
C4_Witness ==
    /\ \E k \in 1..Len(log) : log[k].ev = "attempt" /\ log[k].r = "ok" /\ log[k].n = 2
    /\ \E k \in 1..Len(log) : log[k].ev = "attempt" /\ log[k].r = "ok" /\ log[k].n = 3
    /\ pc = "done"

\* The waits of row's send_smtp call, in order
RECURSIVE BackoffWaits(_, _)
BackoffWaits(row, k) ==
    IF k = 0 THEN <<>>
    ELSE IF log[k].ev = "backoff" /\ log[k].i = row
         THEN Append(BackoffWaits(row, k - 1), log[k].n)
         ELSE BackoffWaits(row, k - 1)

RECURSIVE Sum(_)
Sum(s) == IF s = <<>> THEN 0 ELSE Head(s) + Sum(Tail(s))

\* C5: every backoff wait directly follows a failed attempt k < MAX_RETRIES of
\* the same row and lasts RETRY_BACKOFF * k; a failed attempt k < MAX_RETRIES
\* is followed by that wait and then by attempt k + 1; the failed attempt
\* MAX_RETRIES is followed by the verdict, not by a wait; so an exhausted
\* call waited RETRY_BACKOFF * (1 + ... + (MAX_RETRIES - 1)) in all.
C5_LinearBackoff ==
    /\ \A k \in 1..Len(log) :
          log[k].ev = "backoff" =>
              /\ k > 1
              /\ log[k - 1].ev = "attempt" /\ log[k - 1].i = log[k].i
              /\ log[k - 1].r # "ok"
              /\ log[k - 1].n < MAX_RETRIES
              /\ log[k].n = RETRY_BACKOFF * log[k - 1].n
              /\ k < Len(log) => log[k + 1].ev = "attempt" /\ log[k + 1].n = log[k - 1].n + 1
    /\ \A k \in 1..Len(log) :
          (log[k].ev = "attempt" /\ log[k].r # "ok") =>
              IF log[k].n < MAX_RETRIES
              THEN IF k < Len(log) THEN log[k + 1].ev = "backoff" ELSE pc = "backoff"
              ELSE k < Len(log) /\ log[k + 1].ev = "failed_after_retries"
    /\ \A row \in 1..Len(rows) :
          At("failed_after_retries", row) # {} =>
              LET waits == BackoffWaits(row, Len(log)) IN
              /\ waits = [k \in 1..(MAX_RETRIES - 1) |-> RETRY_BACKOFF * k]
              /\ Sum(waits) = RETRY_BACKOFF * (((MAX_RETRIES - 1) * MAX_RETRIES) \div 2)

\* An exhausted call waited 5 then 10 seconds.
C5_Witness ==
    \E row \in 1..Len(rows) :
        /\ At("failed_after_retries", row) # {}
        /\ BackoffWaits(row, Len(log)) = <<5, 10>>

\* The number of positions of the log that hold event ev
Count(ev) == Cardinality({k \in 1..Len(log) : log[k].ev = ev})

\* The resume is missing and the run made a send attempt, or reported more
\* or fewer than one SkippedBuildError, or recorded something after it.
C6_HaltViolated ==
    \/ Has("attempt")
    \/ Count("skipped_build_error") # 1
    \/ \E k \in 1..Len(log) : log[k].ev = "skipped_build_error" /\ k < Len(log)

C7_PreviewNeedsNoCredentials ==
    ((dry_run \/ ~send) /\ csv # <<>>) =>
        /\ ~Has("missing_credentials")
        /\ pc = "done" => (Has("read_csv") /\ rows = csv /\ OutcomesAt(1) # {})

\* C8: in send mode with the sender address, the SMTP user or the SMTP
\* password missing, the run ends at the credential check: the CSV file is
\* never read, no row is resolved, no message built, no outcome recorded and
\* no send attempt made; the abort is all the run records.
C8_MissingCredentialsAbort ==
    (send /\ ~dry_run /\ (~smtp_user \/ ~smtp_pass \/ ~from_email)) =>
        /\ pc \in {"check_credentials", "done"}
        /\ rows = <<>> /\ i = 0 /\ msg = None /\ attempt = 0
        /\ IF pc = "done"
           THEN log = <<Event("missing_credentials", 0, 0, "")>>
           ELSE log = <<>>

\* A sending run with only the sender address missing aborted over a
\* non-empty CSV file.
C8_Witness ==
    /\ send /\ ~dry_run /\ smtp_user /\ smtp_pass /\ ~from_email
    /\ csv # <<>>
    /\ pc = "done"
    /\ log = <<Event("missing_credentials", 0, 0, "")>>

\* C9: once a row has ended in FailedAfterRetries, every later row the loop
\* passes has exactly one outcome, and the run ends only by exhausting the
\* rows, each later row having its outcome, whichever way the attempts failed.
C9_TransportFailureDoesNotHalt ==
    \A row \in 1..Len(rows) :
        At("failed_after_retries", row) # {} =>
            /\ \A later \in (row + 1)..Len(rows) :
                  Finished(later) => Cardinality(OutcomesAt(later)) = 1
            /\ pc = "done" =>
                  /\ log[Len(log)].ev = "run_complete"
                  /\ i = Len(rows) + 1
                  /\ \A later \in (row + 1)..Len(rows) : Cardinality(OutcomesAt(later)) = 1

\* Row 1 failed after errors of both kinds, and row 2 then got its outcome.
C9_Witness ==
    /\ pc = "done"
    /\ Len(rows) = 2
    /\ OnlyOutcome(1, "failed_after_retries")
    /\ \E k \in At("attempt", 1) : log[k].r = "quit_error"
    /\ \E k \in At("attempt", 1) : log[k].r = "send_error"
    /\ OnlyOutcome(2, "sent")

\* C10: each verdict of send_smtp (Sent or FailedAfterRetries) is followed at
\* once by one throttle wait of args.delay for the same row, before anything
\* of the next row; a throttle wait happens nowhere else, so a row that was
\* skipped or previewed has none, and no row has two.
C10_ThrottleOncePerDeliver ==
    /\ \A k \in 1..Len(log) :
          log[k].ev \in {"sent", "failed_after_retries"} =>
              IF k < Len(log)
              THEN log[k + 1] = Event("throttle", log[k].i, delay, "")
              ELSE pc = "throttle" /\ i = log[k].i
    /\ \A k \in 1..Len(log) :
          log[k].ev = "throttle" =>
              /\ send /\ ~dry_run
              /\ k > 1
              /\ log[k - 1].ev \in {"sent", "failed_after_retries"}
              /\ log[k - 1].i = log[k].i
              /\ \A j \in 1..Len(log) : log[j].i > log[k].i => j > k
    /\ \A row \in 1..Len(rows) :
          /\ Cardinality(At("throttle", row)) <= 1
          /\ (\E k \in OutcomesAt(row) :
                 log[k].ev \in {"previewed", "skipped_missing_email", "skipped_build_error"})
                => At("throttle", row) = {}

\* One throttle wait followed a Sent and one a FailedAfterRetries, and a
\* skipped row has none.
C10_Witness ==
    /\ pc = "done"
    /\ Count("throttle") = 2
    /\ Count("sent") = 1
    /\ Count("failed_after_retries") = 1

\* The outcome events of the log, in order
IsOutcome(e) == e.ev \in OutcomeEvents
Outcomes == SelectSeq(log, IsOutcome)

\* The events of the log that belong to a row
IsRowEvent(e) == e.i > 0

C12_ExitStatusTellsAborts ==
    exit_status # NotExited =>
        /\ (Has("missing_credentials") \/ Has("skipped_build_error")) => exit_status # 0
        /\ Has("run_complete") => exit_status = 0

\* The role the claim gives each role_preference value of ResolveRolePrefs
C13_ExpectedRole(f) ==
    IF f \in {Some(STR_frontend), Some(RP_FRONT_END), Some(RP_front_end_padded),
              Some(STR_ui), Some(RP_UI_padded)}
    THEN "frontend"
    ELSE IF f \in {Some(RP_Backend), Some(STR_back_end), Some(RP_BACK_END_trailing)}
    THEN "backend"
    ELSE "software"

\* C13: the role picked for a row is the one its trimmed, lower-cased
\* role_preference names (frontend, front-end, ui: frontend; backend,
\* back-end: backend; anything else, empty and missing included: software),
\* it is a key of TEMPLATES, and every row with an email gets one.
C13_RoleResolution ==
    /\ pc = "route" =>
          /\ msg[1].role = C13_ExpectedRole(rows[i].role_preference)
          /\ msg[1].role \in DOMAIN TEMPLATES
          /\ msg[1].role \in RoleKeys
    /\ \A row \in 1..Len(rows) :
          (Finished(row) /\ ~BlankEmail(rows[row])) => At("built", row) # {}

\* "FRONT-END" resolved to frontend.
C13_Witness ==
    /\ pc = "route"
    /\ rows[i].role_preference = Some(RP_FRONT_END)
    /\ msg[1].role = "frontend"

\* The subject tail of each role's pattern
C14_PatternTail(role) ==
    CASE role = "frontend" -> " - Frontend Engineer Application - Ayush Chauhan"
      [] role = "backend" -> " - Backend Engineer Application - Ayush Chauhan"
      [] role = "software" -> " - Software Engineer Application - Ayush Chauhan"

\* C14 as stated: a non-empty subject column is the subject as it stands, an
\* empty or missing one gives the role's pattern rendered with the company.
C14_Original ==
    pc = "route" =>
        LET f == rows[i].subject IN
        IF f # None /\ f[1] # <<>>
        THEN msg[1].subject = f[1]
        ELSE msg[1].subject = msg[1].company \o <<C14_PatternTail(msg[1].role)>>

\* The subject column of ResolveSubjects without its surrounding whitespace
C14_Trimmed(f) ==
    CASE f = None -> <<>>
      [] f = Some(<<" ">>) -> <<>>
      [] f = Some(<<" ","H","i"," ">>) -> <<"H","i">>
      [] OTHER -> f[1]

\* C14 as amended: when the subject column is non-empty after trimming, the
\* subject is the trimmed column, unrendered, whatever the role and company;
\* when it is missing, empty or whitespace-only, the subject is the role's
\* pattern rendered with the company.
C14_SubjectOverride ==
    pc = "route" =>
        LET t == C14_Trimmed(rows[i].subject) IN
        IF t # <<>>
        THEN msg[1].subject = t
        ELSE msg[1].subject = msg[1].company \o <<C14_PatternTail(msg[1].role)>>

\* A padded override became the subject without its padding, and a
\* placeholder in an override would stay as written.
C14_Witness ==
    /\ pc = "route"
    /\ rows[i].subject = Some(<<" ","H","i"," ">>)
    /\ rows[i].role_preference = Some(RP_Backend)
    /\ msg[1].subject = <<"H","i">>

\* ---- The pre-flight variant of the design notes ----
\* The variant tests the attachment once, before the dispatch loop, and halts
\* there when it is missing; otherwise its loop is the loop of main without
\* the build error.  The Mailer answers its send_smtp calls as it answered
\* those of the run at hand.
MailerVerdict(row) ==
    IF \E k \in At("attempt", row) : log[k].r = "ok" THEN "sent" ELSE "failed_after_retries"

PreflightOutcomes ==
    IF ~resume_exists THEN <<>>
    ELSE [row \in 1..Len(rows) |->
            IF MissingEmail(rows[row]) THEN "skipped_missing_email"
            ELSE IF IsPreview THEN "previewed"
            ELSE MailerVerdict(row)]

PreflightVerdict == IF ~resume_exists THEN "halt" ELSE "complete"

\* What the run of main recorded per row (the build error is its halt
\* signal, not a row's outcome) and how it ended
IsRowOutcome(e) == e.ev \in OutcomeEvents \ {"skipped_build_error"}
SourceOutcomes ==
    LET o == SelectSeq(log, IsRowOutcome) IN [n \in 1..Len(o) |-> o[n].ev]
SourceVerdict == IF Has("run_complete") THEN "complete" ELSE "halt"

\* The run at hand and the pre-flight variant agree
C15_Agree == SourceOutcomes = PreflightOutcomes /\ SourceVerdict = PreflightVerdict

\* C15 as stated: for every row list, mode and attachment state, a run that
\* entered the dispatch loop ends with the per-row outcomes and the verdict
\* of the pre-flight variant.
C15_Original ==
    (pc = "done" /\ rows # <<>>) => C15_Agree

\* C15 as amended: the two agree when the attachment exists or the first row
\* has a non-blank email; when the attachment is missing and the list starts
\* with a blank-email row they differ: main records SkippedMissingEmail for
\* the leading blank rows (and completes when every row is blank), the
\* variant records nothing and halts.
C15_PreflightEquivalence ==
    (pc = "done" /\ rows # <<>>) =>
        IF resume_exists \/ ~BlankEmail(rows[1])
        THEN C15_Agree
        ELSE /\ SourceOutcomes # <<>>
             /\ SourceOutcomes[1] = "skipped_missing_email"
             /\ PreflightOutcomes = <<>>
             /\ (SourceVerdict = "complete") <=> \A row \in 1..Len(rows) : BlankEmail(rows[row])

\* Without the attachment both halted at a first row that has an email, a
\* second row left unprocessed.
C15_Witness ==
    /\ pc = "done"
    /\ ~resume_exists
    /\ Len(rows) = 2
    /\ ~BlankEmail(rows[1])
    /\ SourceVerdict = "halt"
    /\ C15_Agree

\* The rows of the CSV file that have a non-blank email
NonBlankRows == {row \in 1..Len(csv) : ~BlankEmail(csv[row])}

\* The run is over: it exhausted its rows, or aborted, or halted.
Ended ==
    /\ pc = "done"
    /\ log # <<>>
    /\ log[Len(log)].ev \in {"run_complete", "missing_credentials", "no_rows",
                             "skipped_build_error"}

\* C16: every run ends, by exhausting its rows or by an abort or halt, and
\* at no time has it made more than MAX_RETRIES send attempts per row with a
\* non-blank email.
C16_Terminates ==
    /\ <>Ended
    /\ [](Count("attempt") <= MAX_RETRIES * Cardinality(NonBlankRows))

\* A run over two rows with an email ended after 2 * 3 failed attempts.
C16_Witness ==
    /\ Ended
    /\ Cardinality(NonBlankRows) = 2
    /\ Count("attempt") = 6

\* C17: once the transport has accepted the message of a row (send_message
\* returned, whether or not quit() then raised), no further send attempt is
\* made for that row and its verdict is Sent.
C17_AcceptedAtMostOnce ==
    \A k \in 1..Len(log) :
        (log[k].ev = "attempt" /\ log[k].r \in {"ok", "quit_error"}) =>
            /\ \A j \in At("attempt", log[k].i) : j <= k
            /\ DeliverReturned(log[k].i) => OnlyOutcome(log[k].i, "sent")

\* C18: the run-completion marker is recorded at most once and as the last
\* thing of the run, after the outcome of the last row, every row having its
\* outcome; a run that has ended carries it exactly when it entered the loop
\* and no build error halted it, and never after a credentials abort.
C18_RunCompleteMarker ==
    /\ Count("run_complete") <= 1
    /\ \A k \in 1..Len(log) :
          log[k].ev = "run_complete" =>
              /\ k = Len(log)
              /\ pc = "done"
              /\ rows # <<>>
              /\ \A row \in 1..Len(rows) : Cardinality(OutcomesAt(row)) = 1
              /\ \E j \in OutcomesAt(Len(rows)) : j < k
              /\ ~Has("missing_credentials")
              /\ ~Has("skipped_build_error")
              /\ ~Has("no_rows")
    /\ pc = "done" =>
          (Has("run_complete")
              <=> (rows # <<>> /\ ~Has("skipped_build_error") /\ ~Has("missing_credentials")))

\* A sending run recorded the marker after the throttle wait of its last row.
C18_Witness ==
    /\ pc = "done"
    /\ Len(rows) = 2
    /\ log[Len(log)].ev = "run_complete"
    /\ log[Len(log) - 1] = Event("throttle", 2, delay, "")

\* C19: the render context of a row holds no empty value: a missing, empty
\* or whitespace-only company gives "Company", a missing, empty or
\* whitespace-only contact_name gives "Hiring Team".
C19_ContextNeverEmpty ==
    pc = "route" =>
        LET Blank(f) == f = None \/ \A k \in 1..Len(f[1]) : f[1][k] \in Whitespace IN
        /\ msg[1].company # <<>>
        /\ msg[1].contact_name # <<>>
        /\ Blank(rows[i].company) => msg[1].company = STR_Company
        /\ Blank(rows[i].contact_name) => msg[1].contact_name = STR_HiringTeam

====
